---- MODULE Spec2Model ----
(***************************************************************************)
(* Model of the server-monitor agent.                                      *)
(*                                                                         *)
(* Spec     the dispatch pipeline as the program runs it: the tick loop    *)
(*          (monitor), the storage module's buffer and flush               *)
(*          (storeMetrics / processMetricsBatch / flushMetrics) and the    *)
(*          SIGINT/SIGTERM handler (cleanup).  One action is one turn of   *)
(*          the Node.js event loop: a callback runs, with every            *)
(*          continuation that needs no I/O, until each promise chain it    *)
(*          drives waits for I/O again.                                    *)
(* SpecProcess  Spec together with the cleanup loop (scheduledCleanup);    *)
(*          SpecLive is SpecProcess with timers firing and calls returning.*)
(* SpecCpu  the CPU sampler (collectCpuMetrics) called once per tick.      *)
(* SpecNet  the network sampler (collectNetworkMetrics) called once per    *)
(*          tick.                                                          *)
(* SpecPush  the ticks of Spec with storeMetrics called with or without a  *)
(*          snapshot; no signal.                                           *)
(* SpecFlush  Spec with BATCH_SIZE=2 and one more signal.                   *)
(* SpecBatch3  Spec started with BATCH_SIZE=3.                             *)
(* SpecRetention  SpecProcess started with any CLEANUP_DAYS_TO_KEEP.       *)
(* SpecAgg  the aggregator (collectAllMetrics) called once per tick, with  *)
(*          the CPU and network samplers it runs.                          *)
(* SpecApi  the API sink, store calls one after the other.                *)
(* SpecDb   the PostgreSQL sink (postgresqlStorage.storeMetrics) called    *)
(*          for one snapshot after another, one action per awaited call.   *)
(***************************************************************************)
EXTENDS Integers, Sequences, FiniteSets, TLC

\* ---------------------------------------------------------------- bounds
MaxTicks == 5
MaxSignals == 1
MaxCores == 2
MaxCpuCalls == 2
MaxNetCalls == 3
MaxStores == 3
MaxProcs == 2
MaxAggCalls == 2
MaxApiCalls == 2

\* ------------------------------------------------------ program constants
DefaultBatchSize == 5

\* the values of parseInt(process.env.BATCH_SIZE) explored; 0 stands for 0,
\* NaN and unset, which all select the default
BatchSizeEnv == {0, 1, 2}

VARIABLES
  API_ENABLED,    \* process.env.API_ENABLED === 'true'
  DB_ENABLED,     \* process.env.DB_ENABLED === 'true'
  BATCH_SIZE,     \* parseInt(process.env.BATCH_SIZE); 0 stands for 0, NaN, unset
  metricsBuffer,  \* storage module: let metricsBuffer = []
  created,        \* number of snapshots the tick loop has pushed (ids 1..created)
  monitorPc,      \* position of monitor(): "collecting", "storing", "timer"
  flushes,        \* every call of processMetricsBatch, in call order
  sinkLog,        \* every start and end of a sink storeMetrics call, in order
  pushRet,        \* pushRet[i]: what storeMetrics(snapshot i) returned
  pushArg,        \* pushArg[i]: whether the i-th storeMetrics call was given a snapshot
  signals,        \* number of SIGINT/SIGTERM delivered
  handlerPc,      \* position of each cleanup() activation
  pool,           \* db module: pool !== null
  poolEnding,     \* pool.end() has been called
  exited,         \* process.exit(0) has run
  timers,         \* number of pending setTimeout(monitor, REFRESH_INTERVAL)
  running,        \* number of monitor() calls that have not reached their setTimeout
  monitorErr,     \* the monitor() call that armed the pending timer went through its catch block
  cleanupPc,      \* position of scheduledCleanup(): "off", "timer", "running"
  cleanupRet,     \* what cleanupOldMetrics() returned to the latest scheduledCleanup()
  CLEANUP_DAYS_TO_KEEP, \* the constant index.js computes from the environment
  cleanupDays,    \* daysToKeep of the cleanup query in flight, 0 when none is
  \* CPU sampler
  osCpus,         \* the kernel's per-core time counters (what os.cpus() reads)
  prevCpuInfo,    \* cpu module: let prevCpuInfo = null
  cpuLog,         \* every call of collectCpuMetrics: counters read, metric returned
  \* network sampler
  clock,          \* Date.now(), in ms since the network module was loaded
  prevNetStats,   \* network module: let prevNetStats = {rx: 0, tx: 0, timestamp: Date.now()}
  netLog,         \* every call of collectNetworkMetrics
  \* PostgreSQL sink
  dbPc,           \* position of postgresqlStorage.storeMetrics(): the await it waits at
  dbCall,         \* the snapshot being stored: call number, process rows, minimal or full
  dbTxn,          \* the checked-out client's connection: transaction state and pending rows
  dbRows,         \* the rows committed in the database
  dbRet,          \* every call of storeMetrics that has settled, with how it settled
  dbClients,      \* clients checked out of the pool and not released
  \* aggregator
  aggLog,         \* every call of collectAllMetrics: what failed, what it gave
  \* API sink
  apiPc,          \* apiStorage.storeMetrics: "idle", "requested"
  apiCall,        \* the store call in progress: its inputs, the requests it issued
  apiLog          \* every finished store call: inputs, requests, response, result

schedVars == <<timers, running, monitorErr>>
cleanupVars == <<cleanupPc, cleanupRet, CLEANUP_DAYS_TO_KEEP, cleanupDays>>

dispatchVars == <<API_ENABLED, DB_ENABLED, BATCH_SIZE, metricsBuffer, created,
                  monitorPc, flushes, sinkLog, pushRet, pushArg, signals, handlerPc,
                  pool, poolEnding, exited, schedVars, cleanupVars>>

cpuVars == <<osCpus, prevCpuInfo, cpuLog>>
netVars == <<clock, prevNetStats, netLog>>
dbVars == <<dbPc, dbCall, dbTxn, dbRows, dbRet, dbClients>>

aggVars == <<aggLog>>
apiVars == <<apiPc, apiCall, apiLog>>

vars == <<dispatchVars, cpuVars, netVars, dbVars, aggVars, apiVars>>

\* ------------------------------------------------------------ storage module

\* const batchSize = parseInt(process.env.BATCH_SIZE) || 5;
BatchSize(env) == IF env = 0 THEN DefaultBatchSize ELSE env

\* mutant: flush only once the buffer has grown past the batch size
ThresholdReached_strict(buf, bs) == Len(buf) > bs

\* if (metricsBuffer.length >= batchSize)
ThresholdReached(buf, bs) == Len(buf) >= bs

\* const batchToProcess = [...metricsBuffer];
BatchToProcess(buf) == buf

\* mutant: the buffer is not reset after the copy
ClearedBuffer_keep(buf) == buf

\* metricsBuffer = [];
ClearedBuffer(buf) == << >>

\* mutant: DB_ENABLED is consulted before API_ENABLED
ActiveSink_dbfirst(api, db) == IF db THEN "db" ELSE IF api THEN "api" ELSE "none"

\* mutant: the snapshot is pushed before the argument is tested
Pushed_unchecked(buf, given, id) == Append(buf, id)

\* if (!metrics) return false;  metricsBuffer.push(metrics);
Pushed(buf, given, id) == IF given THEN Append(buf, id) ELSE buf

\* if API_ENABLED ... else if DB_ENABLED ... else (no storage method)
ActiveSink(api, db) == IF api THEN "api" ELSE IF db THEN "db" ELSE "none"

\* mutant: a missing storage method counts as a failed store
NoSinkResult_fail == "false"

\* result = true when no storage method is enabled
NoSinkResult == "ok"

\* what one store call of a sink can produce: the API sink resolves true or
\* false; the PostgreSQL sink resolves true or false or rejects
SinkOutcomes(sink) ==
  IF sink = "api" THEN {"ok", "false"} ELSE {"ok", "false", "throw"}

\* mutant: the batch is walked from its newest item
NextItem_lifo(batch, done) == batch[Len(batch) - done]

\* for (const metrics of batchToProcess): the item handed over after `done`
\* items of the batch have been processed
NextItem(batch, done) == batch[done + 1]

\* mutant: the try/catch encloses the loop, a rejected store ends it
LoopContinues_abort(outcome) == outcome # "throw"

\* the try/catch is inside the loop body: a failed item never ends the loop
LoopContinues(outcome) == TRUE

\* if (!result) success = false;  catch: success = false;
SuccessAfter(success, outcome) == success /\ outcome = "ok"

\* mutant: an item whose store was rejected goes back to the head of the buffer
BufferAfterItem_requeue(buf, item, outcome) ==
  IF outcome = "throw" THEN <<item>> \o buf ELSE buf

\* mutant: a failed item is put back for the next flush
BufferAfterItem_retry(buf, item, outcome) ==
  IF outcome = "ok" THEN buf ELSE Append(buf, item)

\* the failure branches only log: metricsBuffer is not touched
BufferAfterItem(buf, item, outcome) == buf

\* return success;
Ret(success) == IF success THEN "true" ELSE "false"

\* a call of processMetricsBatch that found a non-empty buffer
\* (`pushedAt`: how many snapshots had been pushed when it was called)
NewFlush(by, buf, npushed) ==
  [by |-> by, batch |-> BatchToProcess(buf), outcomes |-> << >>,
   busy |-> FALSE, success |-> TRUE, result |-> "none", pushedAt |-> npushed]

\* the synchronous run of the for loop with no storage method enabled
RECURSIVE RunNoSink(_)
RunNoSink(f) ==
  IF Len(f.outcomes) >= Len(f.batch) \/
     (Len(f.outcomes) > 0 /\ ~LoopContinues(f.outcomes[Len(f.outcomes)]))
  THEN [f EXCEPT !.result = Ret(f.success)]
  ELSE RunNoSink([f EXCEPT !.outcomes = Append(@, NoSinkResult),
                           !.success = SuccessAfter(@, NoSinkResult)])

StartEv(i, id, sink) == [ev |-> "start", id |-> id, sink |-> sink, f |-> i]
EndEv(i, id, sink) == [ev |-> "end", id |-> id, sink |-> sink, f |-> i]

\* mutant: an empty buffer counts as a failed flush
ProcessMetricsBatch_emptyFails(by, buf, npushed) ==
  LET sink == ActiveSink(API_ENABLED, DB_ENABLED)
      i == Len(flushes) + 1
      f == NewFlush(by, buf, npushed)
  IN IF Len(buf) = 0
     THEN <<Append(flushes, [f EXCEPT !.result = "false"]), sinkLog, buf>>
     ELSE IF sink = "none"
     THEN <<Append(flushes, RunNoSink(f)), sinkLog, ClearedBuffer(buf)>>
     ELSE <<Append(flushes, [f EXCEPT !.busy = TRUE]),
            Append(sinkLog, StartEv(i, NextItem(f.batch, 0), sink)),
            ClearedBuffer(buf)>>

\* processMetricsBatch() up to its first wait: the empty-buffer return, or copy
\* and clear and then either the whole loop (no sink) or the first sink call.
\* Gives the new values of <<flushes, sinkLog, metricsBuffer>>.
ProcessMetricsBatch(by, buf, npushed) ==
  LET sink == ActiveSink(API_ENABLED, DB_ENABLED)
      i == Len(flushes) + 1
      f == NewFlush(by, buf, npushed)
  IN IF Len(buf) = 0
     THEN <<Append(flushes, [f EXCEPT !.result = "true"]), sinkLog, buf>>
     ELSE IF sink = "none"
     THEN <<Append(flushes, RunNoSink(f)), sinkLog, ClearedBuffer(buf)>>
     ELSE <<Append(flushes, [f EXCEPT !.busy = TRUE]),
            Append(sinkLog, StartEv(i, NextItem(f.batch, 0), sink)),
            ClearedBuffer(buf)>>

\* mutant: the forced flush applies the threshold test of storeMetrics
FlushMetrics_threshold(by, buf, npushed) ==
  IF ThresholdReached(buf, BatchSize(BATCH_SIZE))
  THEN ProcessMetricsBatch(by, buf, npushed)
  ELSE <<Append(flushes, [NewFlush(by, << >>, npushed) EXCEPT !.result = "true"]),
         sinkLog, buf>>

\* async function flushMetrics() { return await processMetricsBatch(); }
FlushMetrics(by, buf, npushed) == ProcessMetricsBatch(by, buf, npushed)

\* ------------------------------------------------------------------- helpers
Active(i) == flushes[i].result = "none"
ActiveFlushes == {i \in 1..Len(flushes) : Active(i)}
DbCallInFlight ==
  \E i \in ActiveFlushes : flushes[i].busy /\ ActiveSink(API_ENABLED, DB_ENABLED) = "db"

\* ------------------------------------------------------------- JS numbers
\* A JavaScript number as the samplers produce it: a finite value, NaN or an
\* infinity.  CPU usage is held in hundredths of a percent (the code rounds to
\* two decimals); a network rate is held as the exact fraction n / d bytes per
\* second in lowest terms, d > 0.  Binary floating-point rounding is not
\* modelled.
Num(v) == [k |-> "num", n |-> v, d |-> 1]
NaN == [k |-> "NaN", n |-> 0, d |-> 1]
Infinity(sign) == [k |-> IF sign > 0 THEN "+Inf" ELSE "-Inf", n |-> 0, d |-> 1]

Abs(x) == IF x < 0 THEN -x ELSE x
RECURSIVE Gcd(_, _)
Gcd(a, b) == IF b = 0 THEN a ELSE Gcd(b, a % b)

\* x / y for integers x and y, as JavaScript divides
JsDiv(x, y) ==
  IF y = 0
  THEN IF x = 0 THEN NaN ELSE Infinity(x)
  ELSE LET g == Gcd(Abs(x), Abs(y))
           sg == IF y < 0 THEN -1 ELSE 1
       IN [k |-> "num", n |-> sg * (x \div g), d |-> sg * (y \div g)]

\* ------------------------------------------------------------- CPU sampler
Categories == {"user", "sys", "idle"}  \* nice and irq are summed like user and sys

\* per-core counters at boot, and what one core can add between two samples
CpuStart == [user |-> 250, sys |-> 250, idle |-> 500]
CpuSteps == {[user |-> 0, sys |-> 0, idle |-> 0],
             [user |-> 0, sys |-> 0, idle |-> 500],
             [user |-> 250, sys |-> 250, idle |-> 0]}

\* an object is a function from its keys; {} is the function with no key
EmptyObj == << >>
Null == [isNull |-> TRUE, val |-> EmptyObj]
Obj(o) == [isNull |-> FALSE, val |-> o]

\* cpus.reduce((acc, cpu) => { keys(cpu.times).forEach(type =>
\*   acc[type] = (acc[type] || 0) + cpu.times[type]) }, {})
RECURSIVE getCpuInfo(_)
getCpuInfo(cpus) ==
  IF Len(cpus) = 0 THEN EmptyObj
  ELSE LET acc == getCpuInfo(SubSeq(cpus, 1, Len(cpus) - 1))
           times == cpus[Len(cpus)]
       IN [type \in Categories |->
             (IF type \in DOMAIN acc THEN acc[type] ELSE 0) + times[type]]

\* Object.values(o).reduce((acc, val) => acc + val, 0)
RECURSIVE SumValues(_, _)
SumValues(o, keys) ==
  IF keys = {} THEN 0
  ELSE LET key == CHOOSE x \in keys : TRUE
       IN o[key] + SumValues(o, keys \ {key})
Total(o) == SumValues(o, DOMAIN o)

\* mutant: the idle share is returned, not its complement to 100
RoundedUsage_idle(idleDiff, totalDiff) ==
  LET sg == IF totalDiff < 0 THEN -1 ELSE 1
  IN Num((sg * (20000 * idleDiff + totalDiff)) \div (sg * 2 * totalDiff))

\* Math.round(x * 100) / 100 for x = 100 - (idleDiff / totalDiff * 100),
\* totalDiff # 0, in hundredths: floor(10000 (totalDiff - idleDiff) / totalDiff + 1/2)
RoundedUsage(idleDiff, totalDiff) ==
  LET sg == IF totalDiff < 0 THEN -1 ELSE 1
      num == sg * (20000 * (totalDiff - idleDiff) + totalDiff)
      den == sg * 2 * totalDiff
  IN Num(num \div den)

\* function calculateCpuUsage(oldCpuInfo, newCpuInfo)
calculateCpuUsage(oldCpuInfo, newCpuInfo) ==
  LET totalDiff == Total(newCpuInfo) - Total(oldCpuInfo)
      hasIdle == "idle" \in DOMAIN newCpuInfo /\ "idle" \in DOMAIN oldCpuInfo
      idleDiff == newCpuInfo["idle"] - oldCpuInfo["idle"]
  IN IF ~hasIdle THEN NaN                       \* undefined - x is NaN
     ELSE IF totalDiff = 0
     THEN IF idleDiff = 0 THEN NaN              \* 0 / 0
          ELSE Infinity(-idleDiff)              \* 100 - (+-Infinity)
     ELSE RoundedUsage(idleDiff, totalDiff)

\* the catch branch of collectCpuMetrics
CpuFallback == [usage |-> Num(0), cores |-> 0, model |-> "Unknown"]

\* mutant: the first call returns the baseline but leaves prevCpuInfo unset
SeedCpuInfo_unset(info) == Null

\* prevCpuInfo = getCpuInfo();   (first call)
SeedCpuInfo(info) == Obj(info)

\* function collectCpuMetrics(): `cpus` is what os.cpus() returns during the
\* call.  Gives <<new prevCpuInfo, returned metric>>.  cpus[0].model throws
\* when the list is empty, after prevCpuInfo has been assigned.
collectCpuMetrics(prev, cpus) ==
  IF prev.isNull
  THEN <<SeedCpuInfo(getCpuInfo(cpus)),
         IF Len(cpus) = 0 THEN CpuFallback
         ELSE [usage |-> Num(0), cores |-> Len(cpus), model |-> "cpu"]>>
  ELSE LET newCpuInfo == getCpuInfo(cpus)
           cpuUsage == calculateCpuUsage(prev.val, newCpuInfo)
       IN <<Obj(newCpuInfo),
            IF Len(cpus) = 0 THEN CpuFallback
            ELSE [usage |-> cpuUsage, cores |-> Len(cpus), model |-> "cpu"]>>

CpuInit ==
  /\ osCpus \in {[c \in 1..n |-> CpuStart] : n \in 1..MaxCores}
  /\ prevCpuInfo = Null
  /\ cpuLog = << >>

CpuIdle ==
  /\ osCpus = <<CpuStart>>
  /\ prevCpuInfo = Null
  /\ cpuLog = << >>

\* ---------------------------------------------------------- network sampler
\* what the interface counters can read (a lower value than before is a
\* counter reset) and how much time can pass between two samples, in ms
NetReadings == {[rx |-> 0, tx |-> 0], [rx |-> 1000, tx |-> 500],
                [rx |-> 3000, tx |-> 4500]}
NetElapsed == {0, 1000, 2000}

\* getNetworkInfo(): the counters of the main interface, or the fallback
\* object when the query fails (the error is caught and logged inside)
getNetworkInfo(ok, counters) ==
  IF ok THEN [interface |-> "eth0", rx |-> counters.rx, tx |-> counters.tx]
  ELSE [interface |-> "unknown", rx |-> 0, tx |-> 0]

\* mutant: the difference is divided by a fixed tick of one second
calculateNetworkRates_fixedTick(prev, current, now) ==
  <<[rx |-> current.rx, tx |-> current.tx, timestamp |-> now],
    JsDiv(1000 * (current.rx - prev.rx), 1000),
    JsDiv(1000 * (current.tx - prev.tx), 1000)>>

\* mutant: a rate below zero is clamped to zero
calculateNetworkRates_clamped(prev, current, now) ==
  LET elapsedMs == now - prev.timestamp
      rxRate == IF current.rx < prev.rx THEN Num(0)
                ELSE JsDiv(1000 * (current.rx - prev.rx), elapsedMs)
      txRate == IF current.tx < prev.tx THEN Num(0)
                ELSE JsDiv(1000 * (current.tx - prev.tx), elapsedMs)
  IN <<[rx |-> current.rx, tx |-> current.tx, timestamp |-> now], rxRate, txRate>>

\* function calculateNetworkRates(current), with now = Date.now().
\* Gives <<new prevNetStats, rxRate, txRate>>.
calculateNetworkRates(prev, current, now) ==
  LET elapsedMs == now - prev.timestamp
      \* x / (elapsedMs / 1000) = 1000 x / elapsedMs
      rxRate == JsDiv(1000 * (current.rx - prev.rx), elapsedMs)
      txRate == JsDiv(1000 * (current.tx - prev.tx), elapsedMs)
  IN <<[rx |-> current.rx, tx |-> current.tx, timestamp |-> now], rxRate, txRate>>

\* async function collectNetworkMetrics(): getNetworkInfo, calculateNetworkRates,
\* getTcpStates (which catches its own errors).  Gives <<new prevNetStats,
\* returned metric>>.
collectNetworkMetrics(prev, ok, counters, now) ==
  LET netInfo == getNetworkInfo(ok, counters)
      rates == calculateNetworkRates(prev, netInfo, now)
  IN <<rates[1],
       [interface |-> netInfo.interface, rx_bytes |-> netInfo.rx,
        tx_bytes |-> netInfo.tx, rx_rate |-> rates[2], tx_rate |-> rates[3]]>>

\* the state when the module has been loaded (timestamp: Date.now() = 0)
NetInit ==
  /\ clock = 0
  /\ prevNetStats = [rx |-> 0, tx |-> 0, timestamp |-> 0]
  /\ netLog = << >>

\* ----------------------------------------------------------------- retention
\* process.env.CLEANUP_DAYS_TO_KEEP: unset, or a text; `n` is the integer
\* parseInt reads from the text, `digits` whether it starts with a number
EnvUnset == [set |-> FALSE, digits |-> FALSE, n |-> 0]
DaysEnv == {EnvUnset,
            [set |-> TRUE, digits |-> TRUE, n |-> 7],
            [set |-> TRUE, digits |-> TRUE, n |-> 30],
            [set |-> TRUE, digits |-> TRUE, n |-> 90],
            [set |-> TRUE, digits |-> TRUE, n |-> 0],
            [set |-> TRUE, digits |-> FALSE, n |-> 0]}

\* parseInt(process.env.CLEANUP_DAYS_TO_KEEP) || 30: NaN (unset, or no
\* leading number) and 0 are falsy and give 30
DaysToKeep(e) == IF e.set /\ e.digits /\ e.n # 0 THEN e.n ELSE 30

\* ---------------------------------------------------------------- aggregator
Collectors == {"cpu", "memory", "disk", "network", "processes"}

\* what collectMemoryMetrics, collectDiskMetrics and collectProcessMetrics
\* return: the metrics read, or the default object of their catch block when
\* a query of theirs failed
Section(name, ok) == [section |-> name, default |-> ~ok]

\* the promise collectAllMetrics returns: rejected, or fulfilled with an
\* object that has the keys `keys`; `sections` holds the collectors' results
Snapshot(keys, sections) == [rejected |-> FALSE, keys |-> keys, sections |-> sections]
Rejected == [rejected |-> TRUE, keys |-> {}, sections |-> << >>]

\* async function collectAllMetrics().  tryOk: os.hostname(), os.platform(),
\* os.release() and os.uptime() return in the try block; catchOk: they return
\* when the catch block calls them again.  The collectors are awaited only
\* after serverInfo has been built, and none of their promises rejects.
collectAllMetrics(tryOk, catchOk, sections) ==
  IF tryOk THEN Snapshot({"timestamp", "server"} \cup Collectors, sections)
  ELSE IF catchOk THEN Snapshot({"timestamp", "server", "error"}, << >>)
  ELSE Rejected

AggInit == aggLog = << >>

\* ------------------------------------------------------------------ API sink
\* the status codes a response can carry, around both ends of 200..299
Statuses == {200, 201, 204, 299, 300, 301, 400, 404, 500, 503}

\* process.env.API_URL: not set, a text new URL() rejects, or a URL
ApiUrls == {"unset", "invalid", "valid"}

\* mutant: a redirect counts as success too
IsSuccess_below400(statusCode) == statusCode >= 200 /\ statusCode < 400

\* if (res.statusCode >= 200 && res.statusCode < 300)
IsSuccess(statusCode) == statusCode >= 200 /\ statusCode < 300

NoApiCall == [given |-> FALSE, url |-> "unset", requests |-> 0]

ApiInit ==
  /\ apiPc = "idle"
  /\ apiCall = NoApiCall
  /\ apiLog = << >>

\* ------------------------------------------------------------ PostgreSQL sink
\* A connection: lost or not, its transaction state ("none": statements
\* commit on their own, "open" after BEGIN, "aborted" after a statement
\* failed inside a transaction) and the rows written in the open transaction.
FreshConn == [lost |-> FALSE, state |-> "none", rows |-> {}]
\* a lost connection: the server discards its open transaction
LostConn == [lost |-> TRUE, state |-> "none", rows |-> {}]

\* how a query sent on the connection can settle: "ok", "error" (the server
\* rejects the statement) or "lost" (the connection fails)
QueryOutcomes(conn) == IF conn.lost THEN {"lost"} ELSE {"ok", "error", "lost"}
\* ROLLBACK is not rejected by a server that receives it
RollbackOutcomes(conn) == IF conn.lost THEN {"lost"} ELSE {"ok", "lost"}

\* the rows storeMetrics writes for a snapshot: the server upsert, the
\* metrics row, one row per entry of processes.topCpuProcesses
ServerRow(id) == [t |-> "server", id |-> id, n |-> 0]
MetricsRow(id) == [t |-> "metrics", id |-> id, n |-> 0]
ProcessRow(id, n) == [t |-> "process", id |-> id, n |-> n]
RowsOf(id, procs) ==
  {ServerRow(id), MetricsRow(id)} \cup {ProcessRow(id, n) : n \in 1..procs}

\* mutant: no transaction is started, every statement commits on its own
Begin_skipped(conn, outcome) == IF outcome = "lost" THEN LostConn ELSE conn

\* await client.query('BEGIN')
Begin(conn, outcome) ==
  IF outcome = "lost" THEN LostConn
  ELSE IF outcome = "ok" THEN [conn EXCEPT !.state = "open"]
  ELSE conn

\* an INSERT of `row` settles.  Gives <<connection, committed rows>>.
Insert(conn, rows, row, outcome) ==
  IF outcome = "lost" THEN <<LostConn, rows>>
  ELSE IF outcome = "error"
  THEN <<IF conn.state = "open" THEN [conn EXCEPT !.state = "aborted"] ELSE conn, rows>>
  ELSE IF conn.state = "open" THEN <<[conn EXCEPT !.rows = @ \cup {row}], rows>>
  ELSE <<conn, rows \cup {row}>>

\* await client.query('COMMIT').  Gives <<connection, committed rows>>; a
\* COMMIT that fails ends the transaction without committing.
Commit(conn, rows, outcome) ==
  IF outcome = "lost" THEN <<LostConn, rows>>
  ELSE IF outcome = "ok" /\ conn.state = "open" THEN <<FreshConn, rows \cup conn.rows>>
  ELSE <<FreshConn, rows>>

\* await client.query('ROLLBACK')
Rollback(conn, outcome) == IF outcome = "lost" THEN LostConn ELSE FreshConn

\* mutant: the client is not given back
Release_leaked(n) == n

\* finally { client.release() }
Release(n) == n - 1

NoCall == [id |-> 0, procs |-> 0, minimal |-> FALSE, inserted |-> 0]

\* the state when the storage module has been loaded
DbInit ==
  /\ dbPc = "idle"
  /\ dbCall = NoCall
  /\ dbTxn = FreshConn
  /\ dbRows = {}
  /\ dbRet = << >>
  /\ dbClients = 0

\* ---------------------------------------------------------------------- Init
\* process.on('SIGINT', cleanup); process.on('SIGTERM', cleanup): one run of
\* cleanup() per signal received, none started yet
Handlers(n) == [k \in 1..n |-> "idle"]

\* the state once initialize() has run: signal handlers registered, the pool
\* created when the database is enabled, the first monitor() waiting for its
\* collectors
DispatchInit ==
  /\ API_ENABLED \in BOOLEAN
  /\ DB_ENABLED \in BOOLEAN
  /\ metricsBuffer = << >>
  /\ created = 0
  /\ monitorPc = "collecting"
  /\ flushes = << >>
  /\ sinkLog = << >>
  /\ pushRet = << >>
  /\ pushArg = << >>
  /\ signals = 0
  /\ pool = DB_ENABLED
  /\ poolEnding = FALSE
  /\ exited = FALSE
  /\ timers = 0
  /\ running = 1
  /\ monitorErr = FALSE
  /\ cleanupPc = (IF DB_ENABLED THEN "timer" ELSE "off")
  /\ cleanupRet = "none"
  /\ cleanupDays = 0

\* the dispatch pipeline of a process with no sink, batch size unset
DispatchIdle ==
  /\ API_ENABLED = FALSE
  /\ DB_ENABLED = FALSE
  /\ BATCH_SIZE = 0
  /\ metricsBuffer = << >>
  /\ created = 0
  /\ monitorPc = "collecting"
  /\ flushes = << >>
  /\ sinkLog = << >>
  /\ pushRet = << >>
  /\ pushArg = << >>
  /\ signals = 0
  /\ handlerPc = Handlers(MaxSignals)
  /\ pool = FALSE
  /\ poolEnding = FALSE
  /\ exited = FALSE
  /\ timers = 0
  /\ running = 1
  /\ monitorErr = FALSE
  /\ cleanupPc = "off"
  /\ cleanupRet = "none"
  /\ cleanupDays = 0
  /\ CLEANUP_DAYS_TO_KEEP = DaysToKeep(EnvUnset)

Init ==
  /\ DispatchInit /\ BATCH_SIZE \in BatchSizeEnv
  /\ handlerPc = Handlers(MaxSignals)
  /\ CLEANUP_DAYS_TO_KEEP = DaysToKeep(EnvUnset)
  /\ CpuIdle /\ NetInit /\ DbInit /\ AggInit /\ ApiInit

\* ------------------------------------------------------------------ tick loop

\* mutant: the timer is periodic (setInterval), it stays armed when it fires
TimersAfterFire_interval(t) == t

\* a timeout set by setTimeout fires once and is gone
TimersAfterFire(t) == t - 1

\* mutant: setTimeout at the end of the try block, skipped when the body throws
MonitorEnd_try(t, err) == <<IF err THEN t ELSE t + 1, FALSE>>

\* mutant: the catch block ends the process
MonitorEnd_fatal(t, err) == <<t + 1, err>>

\* the end of monitor(): the catch block, entered when the body has thrown
\* (err), only logs; then setTimeout(monitor, REFRESH_INTERVAL) in both
\* cases.  Gives <<timers, the process has exited>>.
MonitorEnd(t, err) == <<t + 1, FALSE>>

\* setTimeout(monitor, REFRESH_INTERVAL) fires: monitor() calls
\* collectAllMetrics() and waits for the collectors
TimerFires ==
  /\ ~exited
  /\ timers > 0
  /\ created < MaxTicks
  /\ timers' = TimersAfterFire(timers)
  /\ running' = running + 1
  /\ monitorErr' = FALSE
  /\ monitorPc' = "collecting"
  /\ UNCHANGED <<API_ENABLED, DB_ENABLED, BATCH_SIZE, metricsBuffer, created,
                 flushes, sinkLog, pushRet, pushArg, signals, handlerPc, pool,
                 poolEnding, exited, cleanupVars, cpuVars, netVars, dbVars, aggVars, apiVars>>

\* collectAllMetrics() resolves (a collector's error is caught inside and
\* gives a fallback or the minimal snapshot); getServerIpAddress() needs no
\* I/O; then storeMetrics(metrics): push, threshold test, and the flush up
\* to its first sink call.  Without a flush, or with a flush that needs no
\* I/O, monitor() goes on in the same turn: the display or log statements
\* throw (err) when the snapshot lacks a field they read, and monitor() ends.
CollectedWith(given) ==
  /\ ~exited
  /\ monitorPc = "collecting"
  /\ created < MaxTicks
  /\ LET id == created + 1
         buf == Pushed(metricsBuffer, given, id)
         pmb == ProcessMetricsBatch(0, buf, id)
         ended == \E err \in BOOLEAN :
                    /\ monitorPc' = "timer"
                    /\ monitorErr' = err
                    /\ timers' = MonitorEnd(timers, err)[1]
                    /\ running' = running - 1
                    /\ exited' = MonitorEnd(timers, err)[2]
     IN /\ created' = id
        /\ pushArg' = Append(pushArg, given)
        /\ IF ~given
           THEN /\ metricsBuffer' = buf
                /\ pushRet' = Append(pushRet, "false")
                /\ ended
                /\ UNCHANGED <<flushes, sinkLog>>
           ELSE IF ThresholdReached(buf, BatchSize(BATCH_SIZE))
           THEN /\ flushes' = pmb[1]
                /\ sinkLog' = pmb[2]
                /\ metricsBuffer' = pmb[3]
                /\ LET f == pmb[1][Len(pmb[1])]
                   IN IF f.result = "none"
                      THEN /\ monitorPc' = "storing"
                           /\ pushRet' = Append(pushRet, "none")
                           /\ UNCHANGED <<schedVars, exited>>
                      ELSE /\ ended
                           /\ pushRet' = Append(pushRet, f.result)
           ELSE /\ metricsBuffer' = buf
                /\ pushRet' = Append(pushRet, "true")
                /\ ended
                /\ UNCHANGED <<flushes, sinkLog>>
  /\ UNCHANGED <<API_ENABLED, DB_ENABLED, BATCH_SIZE, signals, handlerPc, pool,
                 poolEnding, cleanupVars, cpuVars, netVars, dbVars, aggVars, apiVars>>

\* monitor() always passes the object collectAllMetrics() returned
Collected == CollectedWith(TRUE)

\* storeMetrics called by a caller that may pass no snapshot
CollectedAny == \E given \in BOOLEAN : CollectedWith(given)

\* ------------------------------------------------------------ shutdown handler

\* cleanup() after `await flushMetrics()`: closeDatabase() when the database
\* is enabled, then process.exit(0).  Gives <<handlerPc[k], poolEnding, exited>>.
AfterFlush(k) ==
  IF DB_ENABLED /\ pool
  THEN IF poolEnding
       THEN <<"failed", poolEnding, exited>>  \* second pool.end() rejects
       ELSE <<"closing", TRUE, exited>>
  ELSE <<"done", poolEnding, TRUE>>

\* SIGINT or SIGTERM: cleanup() runs flushMetrics() up to its first wait
SignalWithin(max) ==
  /\ ~exited
  /\ signals < max
  /\ LET k == signals + 1
         pmb == FlushMetrics(k, metricsBuffer, created)
         f == pmb[1][Len(pmb[1])]
         af == AfterFlush(k)
     IN /\ signals' = k
        /\ flushes' = pmb[1]
        /\ sinkLog' = pmb[2]
        /\ metricsBuffer' = pmb[3]
        /\ IF f.result = "none"
           THEN /\ handlerPc' = [handlerPc EXCEPT ![k] = "flushing"]
                /\ UNCHANGED <<poolEnding, exited>>
           ELSE /\ handlerPc' = [handlerPc EXCEPT ![k] = af[1]]
                /\ poolEnding' = af[2]
                /\ exited' = af[3]
  /\ UNCHANGED <<API_ENABLED, DB_ENABLED, BATCH_SIZE, created, monitorPc,
                 pushRet, pushArg, pool, schedVars, cleanupVars, cpuVars, netVars, dbVars, aggVars, apiVars>>

Signal == SignalWithin(MaxSignals)

\* a signal, also when MaxSignals have been received: one more run of cleanup()
SignalAgain == SignalWithin(MaxSignals + 1)

\* pool.end() resolves (pg waits for checked-out clients to be released):
\* pool = null, then process.exit(0)
PoolEnded ==
  /\ ~exited
  /\ \E k \in DOMAIN handlerPc : handlerPc[k] = "closing"
  /\ ~DbCallInFlight
  /\ cleanupPc # "running"
  /\ handlerPc' = [k \in DOMAIN handlerPc |->
                     IF handlerPc[k] = "closing" THEN "done" ELSE handlerPc[k]]
  /\ pool' = FALSE
  /\ exited' = TRUE
  /\ UNCHANGED <<API_ENABLED, DB_ENABLED, BATCH_SIZE, metricsBuffer, created,
                 monitorPc, flushes, sinkLog, pushRet, pushArg, signals, poolEnding,
                 schedVars, cleanupVars, cpuVars, netVars, dbVars, aggVars, apiVars>>

\* -------------------------------------------------------------- cleanup loop

\* const result = await cleanupOldMetrics();  (scheduledCleanup passes nothing)
ScheduledCleanupArgs == << >>

\* return await postgresqlStorage.cleanupOldMetrics();  (the storage layer
\* passes nothing either, whatever it was called with)
StorageCleanupArgs(args) == << >>

\* async function cleanupOldMetrics(daysToKeep = 30): the default applies
\* when the argument is missing
PgCleanupDays(args) == IF Len(args) = 0 THEN 30 ELSE args[1]

\* setTimeout(scheduledCleanup, ...) fires (armed by initialize() only when
\* the database is enabled): cleanupOldMetrics() takes the pool and sends
\* its query; on a pool that is ending the query is rejected at once, which
\* postgresqlStorage.cleanupOldMetrics turns into false
CleanupFires ==
  /\ ~exited
  /\ cleanupPc = "timer"
  /\ IF poolEnding
     THEN /\ cleanupRet' = "false"
          /\ cleanupPc' = "timer"
          /\ cleanupDays' = 0
     ELSE /\ cleanupRet' = "none"
          /\ cleanupPc' = "running"
          /\ cleanupDays' = PgCleanupDays(StorageCleanupArgs(ScheduledCleanupArgs))
  /\ UNCHANGED CLEANUP_DAYS_TO_KEEP
  /\ UNCHANGED <<API_ENABLED, DB_ENABLED, BATCH_SIZE, metricsBuffer, created,
                 monitorPc, flushes, sinkLog, pushRet, pushArg, signals, handlerPc,
                 pool, poolEnding, exited, schedVars, cpuVars, netVars, dbVars, aggVars, apiVars>>

\* the cleanup query settles: cleanupOldMetrics() returns true, or false when
\* the query failed; scheduledCleanup() logs and arms its next timer
CleanupReturns ==
  /\ ~exited
  /\ cleanupPc = "running"
  /\ \E ok \in BOOLEAN : cleanupRet' = (IF ok THEN "true" ELSE "false")
  /\ cleanupPc' = "timer"
  /\ cleanupDays' = 0
  /\ UNCHANGED CLEANUP_DAYS_TO_KEEP
  /\ UNCHANGED <<API_ENABLED, DB_ENABLED, BATCH_SIZE, metricsBuffer, created,
                 monitorPc, flushes, sinkLog, pushRet, pushArg, signals, handlerPc,
                 pool, poolEnding, exited, schedVars, cpuVars, netVars, dbVars, aggVars, apiVars>>

\* ------------------------------------------------------------------ sink calls

\* the sink call of flush i settles with `outcome`; the loop goes on to the
\* next item or the flush returns to its caller, which runs on
SinkReturns ==
  /\ ~exited
  /\ \E i \in ActiveFlushes :
       \E outcome \in SinkOutcomes(ActiveSink(API_ENABLED, DB_ENABLED)) :
         LET f == flushes[i]
             sink == ActiveSink(API_ENABLED, DB_ENABLED)
             done == Len(f.outcomes)
             item == NextItem(f.batch, done)
             g == [f EXCEPT !.outcomes = Append(@, outcome),
                            !.success = SuccessAfter(@, outcome)]
             more == done + 1 < Len(f.batch) /\ LoopContinues(outcome)
             h == IF more THEN g
                  ELSE [g EXCEPT !.busy = FALSE, !.result = Ret(g.success)]
             af == AfterFlush(f.by)
         IN /\ f.busy
            /\ flushes' = [flushes EXCEPT ![i] = h]
            /\ sinkLog' =
                 IF more
                 THEN sinkLog \o <<EndEv(i, item, sink),
                                   StartEv(i, NextItem(f.batch, done + 1), sink)>>
                 ELSE Append(sinkLog, EndEv(i, item, sink))
            /\ metricsBuffer' = BufferAfterItem(metricsBuffer, item, outcome)
            /\ IF more
               THEN UNCHANGED <<monitorPc, pushRet, handlerPc, poolEnding, exited,
                                schedVars>>
               ELSE IF f.by = 0
               THEN \* storeMetrics returns to monitor(), which runs to its end
                    \E err \in BOOLEAN :
                      /\ monitorPc' = "timer"
                      /\ pushRet' = [pushRet EXCEPT ![Len(pushRet)] = h.result]
                      /\ monitorErr' = err
                      /\ timers' = MonitorEnd(timers, err)[1]
                      /\ running' = running - 1
                      /\ exited' = MonitorEnd(timers, err)[2]
                      /\ UNCHANGED <<handlerPc, poolEnding>>
               ELSE /\ handlerPc' = [handlerPc EXCEPT ![f.by] = af[1]]
                    /\ poolEnding' = af[2]
                    /\ exited' = af[3]
                    /\ UNCHANGED <<monitorPc, pushRet, schedVars>>
  /\ UNCHANGED <<API_ENABLED, DB_ENABLED, BATCH_SIZE, created, pushArg, signals, pool,
                 cleanupVars, cpuVars, netVars, dbVars, aggVars, apiVars>>

Next == TimerFires \/ Collected \/ Signal \/ PoolEnded \/ SinkReturns

Spec == Init /\ [][Next]_vars

\* pushes with or without a snapshot, and the sink calls they start
NextPush == TimerFires \/ CollectedAny \/ SinkReturns
SpecPush == Init /\ [][NextPush]_vars

\* the process with BATCH_SIZE=2, receiving one signal more than MaxSignals:
\* a second cleanup() can run while the first one flushes
InitFlush ==
  /\ DispatchInit /\ BATCH_SIZE = 2
  /\ handlerPc = Handlers(MaxSignals + 1)
  /\ CLEANUP_DAYS_TO_KEEP = DaysToKeep(EnvUnset)
  /\ CpuIdle /\ NetInit /\ DbInit /\ AggInit /\ ApiInit
NextFlush == TimerFires \/ Collected \/ SignalAgain \/ PoolEnded \/ SinkReturns
SpecFlush == InitFlush /\ [][NextFlush]_vars

\* the process started with BATCH_SIZE=3: a forced flush can hold two
\* snapshots and a threshold flush can follow it within MaxTicks ticks
InitBatch3 ==
  /\ DispatchInit /\ BATCH_SIZE = 3
  /\ handlerPc = Handlers(MaxSignals)
  /\ CLEANUP_DAYS_TO_KEEP = DaysToKeep(EnvUnset)
  /\ CpuIdle /\ NetInit /\ DbInit /\ AggInit /\ ApiInit
SpecBatch3 == InitBatch3 /\ [][Next]_vars

\* the whole process: the dispatch pipeline and the cleanup loop
NextProcess == Next \/ CleanupFires \/ CleanupReturns
SpecProcess == Init /\ [][NextProcess]_vars

\* the process started with any CLEANUP_DAYS_TO_KEEP in its environment
InitRetention ==
  /\ DispatchInit /\ BATCH_SIZE \in BatchSizeEnv
  /\ handlerPc = Handlers(MaxSignals)
  /\ \E e \in DaysEnv : CLEANUP_DAYS_TO_KEEP = DaysToKeep(e)
  /\ CpuIdle /\ NetInit /\ DbInit /\ AggInit /\ ApiInit
SpecRetention == InitRetention /\ [][NextProcess]_vars

\* the process when timers fire and every collector and sink call returns
SpecLive ==
  /\ Init /\ [][NextProcess]_vars
  /\ WF_vars(TimerFires) /\ WF_vars(Collected) /\ WF_vars(SinkReturns)

\* ------------------------------------------------------------ sampler ticks

\* one tick's call of collectCpuMetrics(): the cores have counted on since
\* the last call, and os.cpus() returns the counters or, when the CPU
\* information is unavailable, an empty list
CollectCpu ==
  /\ Len(cpuLog) < MaxCpuCalls
  /\ \E step \in [1..Len(osCpus) -> CpuSteps], available \in BOOLEAN :
       LET counted == [c \in 1..Len(osCpus) |->
                         [type \in Categories |-> osCpus[c][type] + step[c][type]]]
           cpus == IF available THEN counted ELSE << >>
           r == collectCpuMetrics(prevCpuInfo, cpus)
       IN /\ osCpus' = counted
          /\ prevCpuInfo' = r[1]
          /\ cpuLog' = Append(cpuLog, [before |-> prevCpuInfo,
                                       read |-> getCpuInfo(cpus),
                                       result |-> r[2]])
  /\ UNCHANGED <<dispatchVars, netVars, dbVars, aggVars, apiVars>>

InitCpu == DispatchIdle /\ CpuInit /\ NetInit /\ DbInit /\ AggInit /\ ApiInit
NextCpu == CollectCpu
SpecCpu == InitCpu /\ [][NextCpu]_vars

\* one tick's call of collectNetworkMetrics(): time has passed, the interface
\* counters read `counters`, and the query succeeds or fails
CollectNet ==
  /\ Len(netLog) < MaxNetCalls
  /\ \E dt \in NetElapsed, counters \in NetReadings, ok \in BOOLEAN :
       LET now == clock + dt
           r == collectNetworkMetrics(prevNetStats, ok, counters, now)
       IN /\ clock' = now
          /\ prevNetStats' = r[1]
          /\ netLog' = Append(netLog, [before |-> prevNetStats, ok |-> ok,
                                       read |-> counters, at |-> now,
                                       result |-> r[2]])
  /\ UNCHANGED <<dispatchVars, cpuVars, dbVars, aggVars, apiVars>>

InitNet == DispatchIdle /\ CpuIdle /\ NetInit /\ DbInit /\ AggInit /\ ApiInit
NextNet == CollectNet
SpecNet == InitNet /\ [][NextNet]_vars

\* ------------------------------------------------------------ aggregation

\* one tick's call of collectAllMetrics(): the os module's calls return or
\* throw (os = "ok": all return; "try": one throws in the try block only;
\* "both": one throws in the try block and again in the catch block); when
\* they return, the five collectors run, at most one of them (`failed`)
\* meeting a failing OS query
Aggregate ==
  /\ Len(aggLog) < MaxAggCalls
  /\ \E os \in {"ok", "try", "both"}, step \in CpuSteps, dt \in NetElapsed,
        counters \in NetReadings, failed \in {{}} \cup {{c} : c \in Collectors} :
       LET counted == [c \in 1..Len(osCpus) |->
                         [type \in Categories |-> osCpus[c][type] + step[type]]]
           now == clock + dt
           cpu == collectCpuMetrics(prevCpuInfo,
                                    IF "cpu" \in failed THEN << >> ELSE counted)
           net == collectNetworkMetrics(prevNetStats, "network" \notin failed,
                                        counters, now)
           sections == [cpu |-> cpu[2],
                        memory |-> Section("memory", "memory" \notin failed),
                        disk |-> Section("disk", "disk" \notin failed),
                        network |-> net[2],
                        processes |-> Section("processes", "processes" \notin failed)]
       IN /\ osCpus' = counted
          /\ clock' = now
          /\ IF os = "ok"
             THEN /\ prevCpuInfo' = cpu[1]
                  /\ prevNetStats' = net[1]
             ELSE /\ failed = {}
                  /\ UNCHANGED <<prevCpuInfo, prevNetStats>>
          /\ aggLog' = Append(aggLog,
                 [os |-> os, failed |-> failed,
                  result |-> collectAllMetrics(os = "ok", os = "try", sections)])
  /\ UNCHANGED <<cpuLog, netLog, dispatchVars, dbVars, apiVars>>

InitAgg == DispatchIdle /\ CpuIdle /\ NetInit /\ DbInit /\ AggInit /\ ApiInit
NextAgg == Aggregate
SpecAgg == InitAgg /\ [][NextAgg]_vars

\* ------------------------------------------------------------ API sink calls

\* the promise of storeMetrics settles with `ret`
ApiSettles(call, status, ret) ==
  /\ apiLog' = Append(apiLog, [given |-> call.given, url |-> call.url,
                               requests |-> call.requests, status |-> status,
                               ret |-> ret])
  /\ apiCall' = NoApiCall
  /\ apiPc' = "idle"

\* apiStorage.storeMetrics(metrics) up to its first wait: false at once when
\* there are no metrics, when API_URL is not set, or when building the
\* request throws (new URL on a text that is no URL); otherwise one request
\* is written and the promise waits for its events
ApiStore ==
  /\ apiPc = "idle"
  /\ Len(apiLog) < MaxApiCalls
  /\ \E given \in BOOLEAN, url \in ApiUrls :
       LET call == [given |-> given, url |-> url, requests |-> 0]
       IN IF ~given \/ url # "valid"
          THEN ApiSettles(call, 0, "false")
          ELSE /\ apiCall' = [call EXCEPT !.requests = 1]
               /\ apiPc' = "requested"
               /\ UNCHANGED apiLog
  /\ UNCHANGED <<dispatchVars, cpuVars, netVars, dbVars, aggVars>>

\* res.on('end'): the response has been read; true for a status in 200..299
ApiResponded ==
  /\ apiPc = "requested"
  /\ \E statusCode \in Statuses :
       ApiSettles(apiCall, statusCode,
                  IF IsSuccess(statusCode) THEN "true" ELSE "false")
  /\ UNCHANGED <<dispatchVars, cpuVars, netVars, dbVars, aggVars>>

\* req.on('error'): the request failed before a response arrived
ApiRequestError ==
  /\ apiPc = "requested"
  /\ ApiSettles(apiCall, 0, "false")
  /\ UNCHANGED <<dispatchVars, cpuVars, netVars, dbVars, aggVars>>

InitApi == DispatchIdle /\ CpuIdle /\ NetInit /\ DbInit /\ AggInit /\ ApiInit
NextApi == ApiStore \/ ApiResponded \/ ApiRequestError
SpecApi == InitApi /\ [][NextApi]_vars

\* ------------------------------------------------------ PostgreSQL sink calls

\* storeMetrics settles with `ret` ("true", "false", or "reject" when an
\* error leaves the function); `at` is the step it settles from
DbSettles(ret) ==
  /\ dbRet' = Append(dbRet, [id |-> dbCall.id, procs |-> dbCall.procs, ret |-> ret,
                             at |-> dbPc])
  /\ dbCall' = NoCall
  /\ dbPc' = "idle"

\* processMetricsBatch calls postgresqlStorage.storeMetrics(metrics): a full
\* snapshot with `procs` top processes or the minimal snapshot; db.getPool()
\* gives the pool, or null when it could not be created; pool.connect() is
\* awaited
DbStore ==
  /\ dbPc = "idle"
  /\ Len(dbRet) < MaxStores
  /\ \E procs \in 0..MaxProcs, minimal \in BOOLEAN, havePool \in BOOLEAN :
       /\ minimal => procs = 0
       /\ dbCall' = [id |-> Len(dbRet) + 1, procs |-> procs, minimal |-> minimal,
                     inserted |-> 0]
       /\ IF havePool
          THEN /\ dbPc' = "connect"
               /\ UNCHANGED dbRet
          ELSE /\ dbPc' = "idle"
               /\ dbRet' = Append(dbRet, [id |-> Len(dbRet) + 1, procs |-> procs,
                                          ret |-> "false", at |-> "idle"])
  /\ UNCHANGED <<dbTxn, dbRows, dbClients, dispatchVars, cpuVars, netVars, aggVars, apiVars>>

\* pool.connect() settles: with a client, and BEGIN is sent; or with an
\* error, which leaves storeMetrics (the await is outside the try block)
DbConnected ==
  /\ dbPc = "connect"
  /\ \E ok \in BOOLEAN :
       IF ok
       THEN /\ dbClients' = dbClients + 1
            /\ dbTxn' = FreshConn
            /\ dbPc' = "begin"
            /\ UNCHANGED <<dbCall, dbRet>>
       ELSE /\ DbSettles("reject")
            /\ UNCHANGED <<dbClients, dbTxn>>
  /\ UNCHANGED <<dbRows, dispatchVars, cpuVars, netVars, aggVars, apiVars>>

\* BEGIN settles: the server upsert is sent, or the catch block sends ROLLBACK
DbBegun ==
  /\ dbPc = "begin"
  /\ \E outcome \in QueryOutcomes(dbTxn) :
       /\ dbTxn' = Begin(dbTxn, outcome)
       /\ dbPc' = IF outcome = "ok" THEN "server" ELSE "rollback"
  /\ UNCHANGED <<dbCall, dbRows, dbRet, dbClients, dispatchVars, cpuVars, netVars, aggVars, apiVars>>

\* the server upsert settles: the metrics INSERT is sent; building its
\* parameters throws for the minimal snapshot (metrics.cpu is undefined)
DbServerUpserted ==
  /\ dbPc = "server"
  /\ \E outcome \in QueryOutcomes(dbTxn) :
       LET r == Insert(dbTxn, dbRows, ServerRow(dbCall.id), outcome)
       IN /\ dbTxn' = r[1]
          /\ dbRows' = r[2]
          /\ dbPc' = IF outcome = "ok" /\ ~dbCall.minimal THEN "metrics"
                     ELSE "rollback"
  /\ UNCHANGED <<dbCall, dbRet, dbClients, dispatchVars, cpuVars, netVars, aggVars, apiVars>>

\* the metrics INSERT settles: the first process INSERT is sent, or COMMIT
\* when the snapshot lists no process
DbMetricsInserted ==
  /\ dbPc = "metrics"
  /\ \E outcome \in QueryOutcomes(dbTxn) :
       LET r == Insert(dbTxn, dbRows, MetricsRow(dbCall.id), outcome)
       IN /\ dbTxn' = r[1]
          /\ dbRows' = r[2]
          /\ dbPc' = IF outcome # "ok" THEN "rollback"
                     ELSE IF dbCall.procs > 0 THEN "process" ELSE "commit"
  /\ UNCHANGED <<dbCall, dbRet, dbClients, dispatchVars, cpuVars, netVars, aggVars, apiVars>>

\* a process INSERT settles: the next one is sent, or COMMIT after the last
DbProcessInserted ==
  /\ dbPc = "process"
  /\ \E outcome \in QueryOutcomes(dbTxn) :
       LET n == dbCall.inserted + 1
           r == Insert(dbTxn, dbRows, ProcessRow(dbCall.id, n), outcome)
       IN /\ dbTxn' = r[1]
          /\ dbRows' = r[2]
          /\ dbCall' = IF outcome = "ok" THEN [dbCall EXCEPT !.inserted = n]
                       ELSE dbCall
          /\ dbPc' = IF outcome # "ok" THEN "rollback"
                     ELSE IF n < dbCall.procs THEN "process" ELSE "commit"
  /\ UNCHANGED <<dbRet, dbClients, dispatchVars, cpuVars, netVars, aggVars, apiVars>>

\* COMMIT settles: return true after releasing the client, or the catch
\* block sends ROLLBACK
DbCommitted ==
  /\ dbPc = "commit"
  /\ \E outcome \in QueryOutcomes(dbTxn) :
       LET r == Commit(dbTxn, dbRows, outcome)
       IN /\ dbTxn' = r[1]
          /\ dbRows' = r[2]
          /\ IF outcome = "ok"
             THEN /\ DbSettles("true")
                  /\ dbClients' = Release(dbClients)
             ELSE /\ dbPc' = "rollback"
                  /\ UNCHANGED <<dbCall, dbRet, dbClients>>
  /\ UNCHANGED <<dispatchVars, cpuVars, netVars, aggVars, apiVars>>

\* ROLLBACK settles: return false, or its error leaves the catch block and
\* storeMetrics; the finally block releases the client in both cases
DbRolledBack ==
  /\ dbPc = "rollback"
  /\ \E outcome \in RollbackOutcomes(dbTxn) :
       /\ dbTxn' = Rollback(dbTxn, outcome)
       /\ DbSettles(IF outcome = "ok" THEN "false" ELSE "reject")
       /\ dbClients' = Release(dbClients)
  /\ UNCHANGED <<dbRows, dispatchVars, cpuVars, netVars, aggVars, apiVars>>

InitDb == DispatchIdle /\ CpuIdle /\ NetInit /\ DbInit /\ AggInit /\ ApiInit
NextDb ==
  \/ DbStore \/ DbConnected \/ DbBegun \/ DbServerUpserted \/ DbMetricsInserted
  \/ DbProcessInserted \/ DbCommitted \/ DbRolledBack
SpecDb == InitDb /\ [][NextDb]_vars

\* ============================================================== properties

Sink == ActiveSink(API_ENABLED, DB_ENABLED)
B == BatchSize(BATCH_SIZE)
Range(q) == {q[n] : n \in 1..Len(q)}
IsStart(e) == e.ev = "start"

\* the sink events of flush i, in order
FlushEvents(i) == SelectSeq(sinkLog, LAMBDA e : e.f = i)
\* the snapshots flush i has handed to the sink, in order
StartsOf(i) ==
  LET ev == SelectSeq(sinkLog, LAMBDA e : e.f = i /\ e.ev = "start")
  IN [n \in 1..Len(ev) |-> ev[n].id]
\* how many sink calls were started for snapshot id
StartCount(id) == Cardinality({n \in 1..Len(sinkLog) : IsStart(sinkLog[n]) /\ sinkLog[n].id = id})
IsPrefix(p, q) == Len(p) <= Len(q) /\ \A n \in 1..Len(p) : p[n] = q[n]
Done(i) == flushes[i].result # "none"

\* C1: with a sink configured and no forced flush so far, the pushes made
\* from the empty buffer are flushed in groups of exactly B: after n pushes
\* there have been n \div B flushes (none after B-1 pushes, one after B), the
\* k-th of them holding exactly the snapshots (k-1)B+1 .. kB in push order
\* and handing exactly those to the sink in that order; before the B-th push
\* no sink call is made.
C1_ThresholdFlush ==
  (Sink # "none" /\ signals = 0) =>
    /\ Len(flushes) = created \div B
    /\ \A k \in 1..Len(flushes) :
         /\ flushes[k].by = 0
         /\ flushes[k].batch = [j \in 1..B |-> (k - 1) * B + j]
         /\ IsPrefix(StartsOf(k), flushes[k].batch)
         /\ Done(k) => StartsOf(k) = flushes[k].batch
    /\ created < B => sinkLog = << >>
    /\ \A n \in 1..Len(sinkLog) : sinkLog[n].f \in 1..Len(flushes)

C1_Witness ==
  /\ Sink # "none" /\ signals = 0 /\ B >= 2 /\ created = B
  /\ Len(flushes) = 1 /\ Done(1)
  /\ StartsOf(1) = [j \in 1..B |-> j]

\* C2: within one flush the sink calls are strictly sequential and FIFO: the
\* flush's sink events alternate start, end, start, end, ..., the n-th call is
\* for the n-th snapshot of the batch, and the batch is in the order the
\* snapshots entered the buffer (ascending push number).
C2_SequentialFifo ==
  \A i \in 1..Len(flushes) :
    LET ev == FlushEvents(i)
        b == flushes[i].batch
    IN /\ \A n \in 1..Len(ev) :
            /\ ev[n].ev = (IF n % 2 = 1 THEN "start" ELSE "end")
            /\ (n + 1) \div 2 <= Len(b)
            /\ ev[n].id = b[(n + 1) \div 2]
       /\ \A m, n \in 1..Len(b) : m < n => b[m] < b[n]

C2_Witness ==
  \E i \in 1..Len(flushes) :
    /\ Len(flushes[i].batch) >= 3
    /\ Len(FlushEvents(i)) = 5
    /\ flushes[i].busy

\* C3: a failed item (false or throw) does not end the flush: a flush that
\* has returned has handed every item of its batch to the sink, in order, has
\* one outcome per item, and returned true exactly when every outcome was a
\* success.
C3_PartialFailure ==
  \A i \in 1..Len(flushes) :
    (Sink # "none" /\ Done(i)) =>
      /\ Len(flushes[i].outcomes) = Len(flushes[i].batch)
      /\ StartsOf(i) = flushes[i].batch
      /\ (flushes[i].result = "true") <=>
           (\A n \in 1..Len(flushes[i].outcomes) : flushes[i].outcomes[n] = "ok")

C3_Witness ==
  \E i \in 1..Len(flushes) :
    /\ Done(i)
    /\ flushes[i].outcomes = <<"ok", "false", "ok", "throw", "ok">>
    /\ flushes[i].result = "false"
    /\ StartsOf(i) = flushes[i].batch

\* the snapshots in the batches of flushes 1..i followed by those in the buffer
RECURSIVE Placed(_)
Placed(i) == IF i = 0 THEN metricsBuffer ELSE flushes[i].batch \o Placed(i - 1)
\* the snapshots for which a sink call was started, in the order of the calls
StartedIds ==
  LET ev == SelectSeq(sinkLog, IsStart) IN [n \in 1..Len(ev) |-> ev[n].id]
NoDuplicates(q) == Cardinality(Range(q)) = Len(q)

\* C4: every snapshot is handed to the sink at most once, and a snapshot that
\* was taken into a batch (delivered or failed) is never in the buffer or in
\* another batch again.
C4_AtMostOnce ==
  /\ NoDuplicates(StartedIds)
  /\ NoDuplicates(Placed(Len(flushes)))

C4_Witness ==
  \E i, j \in 1..Len(flushes) :
    /\ i < j
    /\ Done(i) /\ flushes[i].result = "false"
    /\ Done(j) /\ flushes[j].batch # << >>
    /\ metricsBuffer # << >>

\* C5: the flush takes the buffer and empties it in one step: a batch holds
\* only snapshots pushed before its flush started, and every pushed snapshot
\* is in exactly one place, the buffer or one batch, exactly once.
C5_AtomicSwap ==
  /\ \A i \in 1..Len(flushes) :
       \A n \in 1..Len(flushes[i].batch) : flushes[i].batch[n] <= flushes[i].pushedAt
  /\ LET placed == Placed(Len(flushes))
     IN Len(placed) = created /\ Range(placed) = 1..created

C5_Witness ==
  \E i \in 1..Len(flushes) :
    /\ flushes[i].busy
    /\ Len(flushes[i].outcomes) < Len(flushes[i].batch) - 1
    /\ \E n \in 1..Len(metricsBuffer) : metricsBuffer[n] > flushes[i].pushedAt

\* C6: a forced flush takes every pending snapshot out of the buffer (the
\* buffer holds only snapshots pushed after it, and is empty while none was),
\* and once it has returned every snapshot of its sub-threshold batch has
\* been handed to the sink exactly once.
C6_ForcedFlush ==
  \A i \in 1..Len(flushes) :
    flushes[i].by # 0 =>
      /\ \A n \in 1..Len(metricsBuffer) : metricsBuffer[n] > flushes[i].pushedAt
      /\ created = flushes[i].pushedAt => metricsBuffer = << >>
      /\ Len(flushes[i].batch) < B
      /\ (Sink # "none" /\ Done(i)) =>
           /\ StartsOf(i) = flushes[i].batch
           /\ \A n \in 1..Len(flushes[i].batch) : StartCount(flushes[i].batch[n]) = 1

C6_Witness ==
  \E i \in 1..Len(flushes) :
    /\ flushes[i].by # 0
    /\ Len(flushes[i].batch) >= 2
    /\ Sink # "none" /\ Done(i)
    /\ created = flushes[i].pushedAt

\* C7: when the process has exited, no accepted snapshot is left in the
\* buffer or in a batch whose flush has not finished.
C7_ExitDrained ==
  exited => (metricsBuffer = << >> /\ ActiveFlushes = {})

\* C8: with neither sink enabled every push and every flush returns true and
\* no sink call is made.
C8_NoSink ==
  Sink = "none" =>
    /\ sinkLog = << >>
    /\ \A n \in 1..Len(pushRet) : pushRet[n] = "true"
    /\ \A i \in 1..Len(flushes) : flushes[i].result = "true"

C8_Witness ==
  /\ Sink = "none"
  /\ Len(pushRet) >= 3
  /\ \E i, j \in 1..Len(flushes) :
       /\ flushes[i].by = 0 /\ flushes[i].batch # << >>
       /\ flushes[j].by # 0 /\ flushes[j].batch # << >>

\* C9: the first CPU sample returns usage 0 and leaves prevCpuInfo holding
\* the counters that call read; a second sample that succeeds returns the
\* usage computed from the first and the second call's counters only: for a
\* positive total delta, 100 - 100 idleDelta / totalDelta rounded to two
\* decimals.
C9_CpuBaseline ==
  /\ Len(cpuLog) >= 1 =>
       /\ cpuLog[1].result.usage = Num(0)
       /\ Len(cpuLog) = 1 => prevCpuInfo = Obj(cpuLog[1].read)
  /\ (Len(cpuLog) >= 2 /\ cpuLog[2].result.model # "Unknown") =>
       LET a == cpuLog[1].read
           b == cpuLog[2].read
       IN /\ cpuLog[2].before = Obj(a)
          /\ cpuLog[2].result.usage = calculateCpuUsage(a, b)
          /\ (a # EmptyObj /\ Total(b) > Total(a)) =>
               LET idleDelta == b["idle"] - a["idle"]
                   totalDelta == Total(b) - Total(a)
               IN cpuLog[2].result.usage.n =
                    (20000 * (totalDelta - idleDelta) + totalDelta) \div (2 * totalDelta)

C9_Witness ==
  /\ Len(cpuLog) = 2
  /\ cpuLog[1].result = [usage |-> Num(0), cores |-> 2, model |-> "cpu"]
  /\ cpuLog[1].read = [user |-> 500, sys |-> 500, idle |-> 1000]
  /\ cpuLog[2].read = [user |-> 750, sys |-> 750, idle |-> 1500]
  /\ cpuLog[2].result.usage = Num(5000)

\* C10: the first network sample returns rx_rate = 0 and tx_rate = 0
\* whatever the counters read, and seeds prevNetStats with that sample's
\* counters and capture time.
C10_NetBaseline ==
  Len(netLog) >= 1 =>
    /\ netLog[1].result.rx_rate = Num(0)
    /\ netLog[1].result.tx_rate = Num(0)
    /\ Len(netLog) = 1 =>
         prevNetStats = [rx |-> netLog[1].result.rx_bytes,
                         tx |-> netLog[1].result.tx_bytes,
                         timestamp |-> netLog[1].at]

\* the sampler's previous-sample state right after its n-th call
NetStateAfter(n) == IF n < Len(netLog) THEN netLog[n + 1].before ELSE prevNetStats

\* C11: a network sample whose counter query fails leaves prevNetStats (rx,
\* tx and timestamp) as it was before that sample.
C11_NetFailureFrame ==
  \A n \in 1..Len(netLog) :
    ~netLog[n].ok => NetStateAfter(n) = netLog[n].before

\* the CPU samples that computed a usage from two readings of the counters
CpuComputed == {n \in 1..Len(cpuLog) :
                  /\ ~cpuLog[n].before.isNull
                  /\ cpuLog[n].before.val # EmptyObj
                  /\ cpuLog[n].read # EmptyObj}
TotalDelta(n) == Total(cpuLog[n].read) - Total(cpuLog[n].before.val)

\* C12: a CPU sample whose total counter delta against the previous sample is
\* zero returns usage 0.
C12_ZeroDelta ==
  \A n \in CpuComputed :
    TotalDelta(n) = 0 => cpuLog[n].result.usage = Num(0)

\* C13: with non-negative, non-decreasing counters every usage the CPU
\* sampler returns is a number between 0 and 100 (0 .. 10000 hundredths).
C13_UsageRange ==
  \A n \in 1..Len(cpuLog) :
    (\A m \in 1..n : cpuLog[m].read # EmptyObj) =>
      /\ cpuLog[n].result.usage.k = "num"
      /\ cpuLog[n].result.usage.d = 1
      /\ cpuLog[n].result.usage.n \in 0..10000

\* C14: a network sample whose counter query fails returns the fallback
\* metric: interface 'unknown' and zero bytes and rates.
C14_NetFallback ==
  \A n \in 1..Len(netLog) :
    ~netLog[n].ok =>
      netLog[n].result = [interface |-> "unknown", rx_bytes |-> 0, tx_bytes |-> 0,
                          rx_rate |-> Num(0), tx_rate |-> Num(0)]

\* r is the JavaScript value of diff / (elapsedMs / 1000) for diff < 0
IsNegativeRate(r, diff, elapsedMs) ==
  IF elapsedMs = 0 THEN r.k = "-Inf"
  ELSE /\ r.k = "num"
       /\ r.d > 0
       /\ r.n * elapsedMs = 1000 * diff * r.d
       /\ (elapsedMs > 0) = (r.n < 0)

\* C15: when a counter reads lower than at the previous sample (a counter
\* reset), the returned rate is the quotient of the negative difference and
\* the elapsed seconds itself: below zero, not clamped and not altered.
C15_NegativeRate ==
  \A n \in 1..Len(netLog) :
    LET e == netLog[n]
        elapsedMs == e.at - e.before.timestamp
    IN e.ok =>
         /\ e.read.rx < e.before.rx =>
              IsNegativeRate(e.result.rx_rate, e.read.rx - e.before.rx, elapsedMs)
         /\ e.read.tx < e.before.tx =>
              IsNegativeRate(e.result.tx_rate, e.read.tx - e.before.tx, elapsedMs)

C15_Witness ==
  \E n \in 1..Len(netLog) :
    /\ netLog[n].ok
    /\ netLog[n].before.rx = 3000 /\ netLog[n].read.rx = 1000
    /\ netLog[n].at - netLog[n].before.timestamp = 2000
    /\ netLog[n].result.rx_rate = [k |-> "num", n |-> -1000, d |-> 1]
    /\ netLog[n].result.tx_rate = [k |-> "num", n |-> -2000, d |-> 1]

\* the threshold flushes (started by a tick's push) waiting for a sink call
TickFlushes == {i \in 1..Len(flushes) : flushes[i].by = 0 /\ flushes[i].busy}

\* C16: at most one monitor() call is between its start and its setTimeout,
\* and no timer is pending while one is: a timer is armed only by a tick that
\* has completed.  The flush a push triggers belongs to the running tick: at
\* most one threshold flush is in progress, and only while its tick waits in
\* storeMetrics.
C16_NoOverlap ==
  /\ running + timers <= 1
  /\ (running = 1) <=> (monitorPc \in {"collecting", "storing"})
  /\ Cardinality(TickFlushes) <= 1
  /\ TickFlushes # {} => (running = 1 /\ monitorPc = "storing")

C16_Witness ==
  /\ running = 1 /\ timers = 0 /\ monitorPc = "storing"
  /\ \E i, j \in 1..Len(flushes) :
       /\ i < j
       /\ flushes[i].by = 0 /\ Done(i) /\ flushes[i].batch # << >>
       /\ j \in TickFlushes

\* C17: while the process has not exited, either a tick is running or
\* exactly one timer for the next tick is pending, also after a tick whose
\* body threw and after a cleanup run that failed; and when timers fire and
\* collector and sink calls return, every tick is followed by another one
\* unless the process exits.
C17_TicksRecur ==
  /\ [](~exited => running + timers = 1)
  /\ \A n \in 0..(MaxTicks - 1) : (created = n) ~> (created > n \/ exited)

C17_Witness ==
  /\ ~exited
  /\ created >= 2 /\ created < MaxTicks
  /\ monitorErr /\ monitorPc = "timer" /\ timers = 1 /\ running = 0
  /\ cleanupRet = "false"

\* C18: the process has exited only if a SIGINT/SIGTERM handler has run to
\* its end, whatever sink calls, tick bodies and cleanup runs have failed.
C18_ExitBySignal ==
  exited => (signals > 0 /\ \E k \in 1..signals : handlerPc[k] = "done")

C18_Witness ==
  /\ exited
  /\ monitorErr
  /\ cleanupRet = "false"
  /\ \E i \in 1..Len(flushes) :
       \E n \in 1..Len(flushes[i].outcomes) : flushes[i].outcomes[n] = "throw"

\* C19: a call of the sink's storeMetrics settles with true or false, never
\* with an error that leaves the function.
C19_NeverRejects ==
  \A n \in 1..Len(dbRet) : dbRet[n].ret \in {"true", "false"}

\* the committed rows that belong to snapshot id
VisibleOf(id) == {row \in dbRows : row.id = id}

C21_MinimalStored ==
  (dbCall.minimal /\ dbPc = "rollback") => (dbTxn.lost \/ dbTxn.state # "open")

\* C22: collectAllMetrics never rejects; its snapshot always carries the
\* timestamp and the server identity, and when the aggregation has thrown it
\* is the minimal snapshot: timestamp, server identity and error marker only.
C22_AggregatorTotal ==
  \A n \in 1..Len(aggLog) :
    /\ ~aggLog[n].result.rejected
    /\ {"timestamp", "server"} \subseteq aggLog[n].result.keys
    /\ aggLog[n].os # "ok" => aggLog[n].result.keys = {"timestamp", "server", "error"}

\* the value a collector's section takes when its OS query has failed
DefaultSection(c) ==
  IF c = "cpu" THEN CpuFallback
  ELSE IF c = "network"
  THEN [interface |-> "unknown", rx_bytes |-> 0, tx_bytes |-> 0,
        rx_rate |-> Num(0), tx_rate |-> Num(0)]
  ELSE Section(c, FALSE)

\* C23: when one collector's OS query fails the snapshot is still the full
\* one, the failed collector's section is its zero/default value and every
\* other section is the metric its collector read.
C23_CollectorIsolated ==
  \A n \in 1..Len(aggLog) :
    aggLog[n].os = "ok" =>
      /\ aggLog[n].result.keys = {"timestamp", "server"} \cup Collectors
      /\ \A c \in aggLog[n].failed :
           aggLog[n].result.sections[c] = DefaultSection(c)
      /\ \A c \in {"memory", "disk", "processes"} \ aggLog[n].failed :
           ~aggLog[n].result.sections[c].default
      /\ "cpu" \notin aggLog[n].failed =>
           aggLog[n].result.sections["cpu"].model # "Unknown"
      /\ "network" \notin aggLog[n].failed =>
           aggLog[n].result.sections["network"].interface # "unknown"

\* C24: API_ENABLED is consulted first, then DB_ENABLED: every sink call goes
\* to the API sink when the API is enabled (also when the DB is enabled too),
\* to the DB sink when only the DB is enabled, and no sink call is made when
\* neither is enabled; a snapshot of a finished flush was handed over exactly
\* once (not at all when no sink is enabled).
C24_SinkSelection ==
  /\ \A n \in 1..Len(sinkLog) :
       sinkLog[n].sink = IF API_ENABLED THEN "api" ELSE "db"
  /\ (~API_ENABLED /\ ~DB_ENABLED) => sinkLog = << >>
  /\ \A i \in 1..Len(flushes) :
       Done(i) => \A id \in Range(flushes[i].batch) :
                    StartCount(id) = IF API_ENABLED \/ DB_ENABLED THEN 1 ELSE 0

C24_Witness ==
  /\ API_ENABLED /\ DB_ENABLED
  /\ \E i \in 1..Len(flushes) :
       /\ Done(i) /\ Len(flushes[i].batch) = 2
       /\ \A id \in Range(flushes[i].batch) :
            \E n \in 1..Len(sinkLog) :
              sinkLog[n] = StartEv(i, id, "api")

\* C25: the days-to-keep argument of the cleanup query the scheduled cleanup
\* sends is the configured CLEANUP_DAYS_TO_KEEP (30 when not configured).
C25_RetentionConfigured ==
  cleanupPc = "running" => cleanupDays = CLEANUP_DAYS_TO_KEEP

\* the flushes that are waiting for a sink call of theirs to settle
InFlight == {i \in ActiveFlushes : flushes[i].busy}

\* C27: at most one sink store call is in flight at any moment, across the
\* threshold flushes of the ticks and the forced flushes of the shutdown
\* handler.
C27_OneCallInFlight == Cardinality(InFlight) <= 1

\* the position of the first sink call started for snapshot id, 0 if none
FirstStart(id) ==
  IF StartCount(id) = 0 THEN 0
  ELSE CHOOSE n \in 1..Len(sinkLog) :
         /\ IsStart(sinkLog[n]) /\ sinkLog[n].id = id
         /\ \A m \in 1..(n - 1) : ~(IsStart(sinkLog[m]) /\ sinkLog[m].id = id)

\* C26: snapshots leave the buffer in the order they entered, over the whole
\* run: when a was pushed before b and b's sink call has started, a's sink
\* call has started before it, also when they belong to different flushes.
C26_GlobalFifo ==
  Sink # "none" =>
    \A a, b \in 1..created :
      (a < b /\ FirstStart(b) > 0) =>
        (FirstStart(a) > 0 /\ FirstStart(a) < FirstStart(b))

\* C28: a store call of the API sink issues at most one request, exactly one
\* when it has metrics and a usable API_URL, and returns true exactly when
\* that request was answered with a status in 200..299; any other status, a
\* request error or a missing API_URL gives false.
C28_ApiStore ==
  \A n \in 1..Len(apiLog) :
    LET c == apiLog[n]
    IN /\ c.requests \in {0, 1}
       /\ (c.given /\ c.url = "valid") <=> c.requests = 1
       /\ c.ret \in {"true", "false"}
       /\ c.ret = "true" <=> (c.requests = 1 /\ c.status \in 200..299)

C28_Witness ==
  /\ \E n \in 1..Len(apiLog) : apiLog[n].ret = "true" /\ apiLog[n].status = 299
  /\ \E n \in 1..Len(apiLog) :
       apiLog[n].ret = "false" /\ apiLog[n].status = 300 /\ apiLog[n].requests = 1

IdleDelta(n) == cpuLog[n].read["idle"] - cpuLog[n].before.val["idle"]
Dist(x, y) == IF x < y THEN y - x ELSE x - y

\* C29: a CPU sample whose total counter delta against the previous sample is
\* positive returns 100 - (idleDelta / totalDelta * 100) rounded to two
\* decimals: a whole number of hundredths at most half a hundredth away from
\* the exact value, totalDelta summing the deltas of all time categories.
C29_CpuUsageFormula ==
  \A n \in CpuComputed :
    TotalDelta(n) > 0 =>
      LET u == cpuLog[n].result.usage
      IN /\ u.k = "num" /\ u.d = 1
         /\ 2 * Dist(u.n * TotalDelta(n), 10000 * (TotalDelta(n) - IdleDelta(n)))
              <= TotalDelta(n)

C29_Witness ==
  \E n \in CpuComputed :
    /\ cpuLog[n].before.val["idle"] = 1000 /\ Total(cpuLog[n].before.val) = 2000
    /\ IdleDelta(n) = 500 /\ TotalDelta(n) = 1000
    /\ cpuLog[n].result.usage = Num(5000)

\* r is the JavaScript value of diff / (elapsedMs / 1000)
IsRate(r, diff, elapsedMs) ==
  IF elapsedMs = 0 THEN r.k # "num"
  ELSE /\ r.k = "num"
       /\ r.d > 0
       /\ r.n * elapsedMs = 1000 * diff * r.d

\* C30: every network sample after the first returns, for rx and for tx, the
\* difference between its counter and the counter of the sample right before
\* it, divided by the seconds that passed between the two samples' capture
\* instants, whatever that time is.
C30_RateByElapsed ==
  \A n \in 2..Len(netLog) :
    LET p == netLog[n - 1]
        e == netLog[n]
    IN /\ IsRate(e.result.rx_rate, e.result.rx_bytes - p.result.rx_bytes, e.at - p.at)
       /\ IsRate(e.result.tx_rate, e.result.tx_bytes - p.result.tx_bytes, e.at - p.at)

C30_Witness ==
  /\ Len(netLog) >= 2
  /\ netLog[1].ok /\ netLog[1].at = 0 /\ netLog[1].result.rx_bytes = 1000
  /\ netLog[2].ok /\ netLog[2].at = 2000 /\ netLog[2].result.rx_bytes = 3000
  /\ netLog[2].result.rx_rate = Num(1000)
  /\ netLog[2].result.tx_rate = Num(2000)

\* the CPU sampler's state right after its n-th call
CpuStateAfter(n) == IF n < Len(cpuLog) THEN cpuLog[n + 1].before ELSE prevCpuInfo

\* C31: a CPU sample that takes the error path and returns the fallback
\* metric leaves prevCpuInfo as it was before the call, also when the failure
\* comes after the counters were read.
C31_CpuFailureFrame ==
  \A n \in 1..Len(cpuLog) :
    cpuLog[n].result = CpuFallback => CpuStateAfter(n) = cpuLog[n].before

\* C32: the buffer holds fewer than B snapshots whenever no push is in its
\* synchronous part (push, threshold test, copy and reset run in one turn, so
\* that is every state), hence never more than B with the snapshot a push
\* adds; this holds whatever the sink calls return.
C32_BufferBounded ==
  /\ B >= 1
  /\ Len(metricsBuffer) < B
  /\ Len(metricsBuffer) + 1 <= B

\* a sink outage: two flushes have failed on every item and the buffer holds
\* B - 1 snapshots again
C32_Witness ==
  /\ B = 2 /\ Len(metricsBuffer) = 1
  /\ Len(flushes) >= 2
  /\ \A i \in 1..2 :
       /\ flushes[i].result = "false" /\ Len(flushes[i].batch) = 2
       /\ \A n \in 1..2 : flushes[i].outcomes[n] # "ok"

\* the threshold flushes the n-th storeMetrics call has started
FlushOfPush(n) == {i \in 1..Len(flushes) :
                     /\ flushes[i].by = 0 /\ flushes[i].pushedAt = n
                     /\ Len(flushes[i].batch) > 0}
\* snapshot n is in the buffer or in the batch of a flush
Held(n) == \/ n \in Range(metricsBuffer)
           \/ \E i \in 1..Len(flushes) : n \in Range(flushes[i].batch)

\* C33: a storeMetrics call without a snapshot returns false, puts nothing
\* into the buffer and starts no flush; a call that stays below the threshold
\* returns true; a call that reaches the threshold returns what its flush
\* returns, false exactly when an item of that batch failed.
C33_PushResult ==
  \A n \in 1..Len(pushRet) :
    IF ~pushArg[n]
    THEN pushRet[n] = "false" /\ ~Held(n) /\ FlushOfPush(n) = {}
    ELSE /\ Cardinality(FlushOfPush(n)) <= 1
         /\ FlushOfPush(n) = {} => pushRet[n] = "true"
         /\ \A i \in FlushOfPush(n) :
              /\ pushRet[n] = flushes[i].result
              /\ Done(i) =>
                   (pushRet[n] = "false" <=>
                      \E k \in 1..Len(flushes[i].outcomes) :
                        flushes[i].outcomes[k] # "ok")

C33_Witness ==
  /\ Len(pushRet) >= 4 /\ B = 2
  /\ ~pushArg[1] /\ pushRet[1] = "false"
  /\ pushArg[2] /\ pushRet[2] = "true"
  /\ pushArg[3] /\ pushRet[3] = "false"
  /\ \E i \in FlushOfPush(3) :
       flushes[i].batch = <<2, 3>> /\ flushes[i].outcomes = <<"ok", "false">>
  /\ ~pushArg[4] /\ metricsBuffer = << >>

\* C34: a store holds exactly one client from the moment pool.connect() has
\* given it one until it settles, and none afterwards: the client is released
\* once on every path (COMMIT, ROLLBACK after a failed statement, a ROLLBACK
\* that fails itself); when the store has settled no transaction is open.
C34_ClientReleased ==
  /\ dbClients = IF dbPc \in {"idle", "connect"} THEN 0 ELSE 1
  /\ dbPc = "idle" => dbTxn.state = "none"
  /\ \A n \in 1..Len(dbRet) :
       dbRet[n].at = "rollback" => dbRet[n].ret \in {"false", "reject"}

C34_Witness ==
  /\ dbPc = "idle" /\ dbClients = 0 /\ Len(dbRet) = 3
  /\ dbRet[1].at = "commit" /\ dbRet[1].ret = "true"
  /\ dbRet[2].at = "rollback" /\ dbRet[2].ret = "false"
  /\ dbRet[3].at = "rollback" /\ dbRet[3].ret = "reject"

\* C35: every network sample returns finite rates, also the first one
\* (measured against the module-load baseline) and one taken at the same
\* clock value as the sample before it.
C35_FiniteRates ==
  \A n \in 1..Len(netLog) :
    /\ netLog[n].result.rx_rate.k = "num"
    /\ netLog[n].result.tx_rate.k = "num"

\* C36: the retention cleanup touches the database only when the DB sink is
\* the active sink: with the API sink or no sink active no cleanup query is
\* sent and no cleanup has failed.
C36_CleanupDbOnly ==
  Sink # "db" => (cleanupPc # "running" /\ cleanupRet # "false")

\* the sink calls flush i has started
CallsOf(i) == {n \in 1..Len(sinkLog) : IsStart(sinkLog[n]) /\ sinkLog[n].f = i}

\* C37: a flush that finds the buffer empty returns true, makes no sink call
\* and leaves the buffer empty; of two flushes with no push between them the
\* first takes every pending snapshot, handing each to the sink at most once
\* (once when it is done), and the second finds nothing.
C37_EmptyFlush ==
  /\ \A i \in 1..Len(flushes) :
       Len(flushes[i].batch) = 0 =>
         /\ flushes[i].result = "true"
         /\ CallsOf(i) = {}
         /\ flushes[i].pushedAt = created => metricsBuffer = << >>
  /\ \A i, j \in 1..Len(flushes) :
       (i < j /\ flushes[i].pushedAt = flushes[j].pushedAt) =>
         /\ Len(flushes[j].batch) = 0
         /\ \A id \in Range(flushes[i].batch) :
              /\ StartCount(id) <= 1
              /\ (Done(i) /\ Sink # "none") => StartCount(id) = 1

\* two signals with no push between them: the first forced flush has
\* delivered the pending snapshot 1, the second has found nothing
C37_Witness ==
  /\ Len(flushes) = 2 /\ Sink # "none"
  /\ flushes[1].by = 1 /\ flushes[1].batch = <<1>> /\ Done(1)
  /\ flushes[2].by = 2 /\ flushes[2].batch = << >> /\ flushes[2].result = "true"
  /\ StartCount(1) = 1 /\ Len(sinkLog) = 2

====
